---- MODULE Spec2Model ----
(***************************************************************************)
(* Model of sedf_intro/sedf_intro.ipynb: the notebook's code cells, run    *)
(* top to bottom, over a heap of pandas objects (DataFrame / Series), the  *)
(* notebook's variable bindings, and the files under Data/.                *)
(*                                                                         *)
(* Geometries are intervals [lo, hi] on one easting axis, each carrying    *)
(* the WKID of its spatial reference (as arcgis geometries do); a point    *)
(* is an interval with lo = hi.  Magnitudes are held in tenths.  Text is   *)
(* a tuple of one-character strings.                                       *)
(***************************************************************************)
EXTENDS Integers, Sequences, FiniteSets, TLC

VARIABLES pc, env, heap, fs, err, out

vars == <<pc, env, heap, fs, err, out>>

(* ---------------------------------------------------------------------- *)
(* Bounds                                                                  *)
(* ---------------------------------------------------------------------- *)
MaxRows == 2

(* ---------------------------------------------------------------------- *)
(* Program constants                                                       *)
(* ---------------------------------------------------------------------- *)
JapanLabel == 113
TrialDistance == 100
BufferDistance == 160934
UTM54N == 32654
WGS84 == 4326
MagnitudeMin == 8

eqpath == "Data/earthquakes.shp"
country_path == "Data/World_Countries_Generalized.shp"
outfile == "Data/japan_quakes.shp"

DropList == {"Depth_Erro", "Depth_Seis", "Magnitude_", "Magnitude1",
             "Magnitud_1", "Azimuthal_", "Horizontal", "Horizont_1",
             "Root_Mean_", "Location_S", "Magnitud_2"}

(* the text literals of the notebook *)
QuakeID == <<"U","W","1","0","5","3","0","7","4","8">>
NukeType == "Nuclear Explosion"
NukeDate == <<"1","1","/","0","9","/","1","9","8","9">>

(* ---------------------------------------------------------------------- *)
(* Text: ordering of characters and lexicographic comparison (Python str)  *)
(* ---------------------------------------------------------------------- *)
Digits == <<"0","1","2","3","4","5","6","7","8","9">>

IsDigit(c) == \E i \in 1..10 : Digits[i] = c

DigitVal(c) == (CHOOSE i \in 1..10 : Digits[i] = c) - 1

(* code point order restricted to the characters used: "/" < digits < letters *)
Ord(c) == IF c = "/" THEN 47
          ELSE IF IsDigit(c) THEN 48 + DigitVal(c)
          ELSE IF c = "U" THEN 85
          ELSE IF c = "W" THEN 87
          ELSE IF c = "N" THEN 78
          ELSE IF c = "K" THEN 75
          ELSE 120

RECURSIVE StrGE(_, _)
StrGE(a, b) ==
    IF b = <<>> THEN TRUE
    ELSE IF a = <<>> THEN FALSE
    ELSE IF Ord(Head(a)) > Ord(Head(b)) THEN TRUE
    ELSE IF Ord(Head(a)) < Ord(Head(b)) THEN FALSE
    ELSE StrGE(Tail(a), Tail(b))

(* ---------------------------------------------------------------------- *)
(* pd.to_datetime(..., format="%m/%d/%Y", errors="coerce") on one value    *)
(* ---------------------------------------------------------------------- *)
Text(s) == [t |-> "str", s |-> s]

NaT == [t |-> "NaT"]

RECURSIVE NumVal(_)
NumVal(s) == IF s = <<>> THEN 0
             ELSE NumVal(SubSeq(s, 1, Len(s) - 1)) * 10 + DigitVal(s[Len(s)])

AllDigits(s) == \A i \in 1..Len(s) : IsDigit(s[i])

IsLeap(y) == (y % 4 = 0 /\ y % 100 # 0) \/ y % 400 = 0

DaysIn(m, y) == IF m = 2 THEN (IF IsLeap(y) THEN 29 ELSE 28)
                ELSE IF m \in {4, 6, 9, 11} THEN 30 ELSE 31

Slashes(s) == {i \in 1..Len(s) : s[i] = "/"}

FirstSlash(s) == CHOOSE k \in Slashes(s) : \A l \in Slashes(s) : k <= l

LastSlash(s) == CHOOSE k \in Slashes(s) : \A l \in Slashes(s) : k >= l

(* TRUE when the text matches %m/%d/%Y and names a real calendar day *)
Parseable(s) ==
    /\ Cardinality(Slashes(s)) = 2
    /\ LET mm == SubSeq(s, 1, FirstSlash(s) - 1)
           dd == SubSeq(s, FirstSlash(s) + 1, LastSlash(s) - 1)
           yy == SubSeq(s, LastSlash(s) + 1, Len(s))
       IN /\ Len(mm) \in {1, 2} /\ AllDigits(mm)
          /\ Len(dd) \in {1, 2} /\ AllDigits(dd)
          /\ Len(yy) = 4 /\ AllDigits(yy)
          /\ NumVal(mm) \in 1..12
          /\ NumVal(dd) \in 1..DaysIn(NumVal(mm), NumVal(yy))

ParseDate(s) ==
    [t |-> "date",
     y |-> NumVal(SubSeq(s, LastSlash(s) + 1, Len(s))),
     m |-> NumVal(SubSeq(s, 1, FirstSlash(s) - 1)),
     d |-> NumVal(SubSeq(s, FirstSlash(s) + 1, LastSlash(s) - 1))]

(* errors="coerce": a value that cannot be parsed becomes NaT, no error *)
ToDatetimeCoerce(v) ==
    IF v.t # "str" THEN v
    ELSE IF Parseable(v.s) THEN ParseDate(v.s) ELSE NaT

DateOrd(v) == v.y * 10000 + v.m * 100 + v.d

(* sedf["Date"] >= '11/09/1989' on one value: text compares as text, a     *)
(* datetime compares with the parsed literal, NaT compares False           *)
DateGE(v, lit) ==
    IF v.t = "str" THEN StrGE(v.s, lit)
    ELSE IF v.t = "date" THEN DateOrd(v) >= DateOrd(ParseDate(lit))
    ELSE FALSE

(* ---------------------------------------------------------------------- *)
(* Geometry: buffer, disjoint, intersects, projection                      *)
(* ---------------------------------------------------------------------- *)
Geom(lo, hi, wkid) == [kind |-> "Geometry", lo |-> lo, hi |-> hi, wkid |-> wkid]

(* UTM zone 54N: central meridian, false easting, metres per degree of     *)
(* longitude along the modelled axis                                       *)
CentralMeridian == 141
FalseEasting == 500000
MetersPerDegree == 90000

Easting(lon) == FalseEasting + (lon - CentralMeridian) * MetersPerDegree

ProjectRelabel(g, wkid) == Geom(g.lo, g.hi, wkid)

(* from_featureclass(path, sr=...): every coordinate is transformed *)
Project(g, wkid) ==
    IF g.wkid = wkid THEN g
    ELSE Geom(Easting(g.lo), Easting(g.hi), wkid)

(* countries.spatial.sr: WGS84 is in degrees, UTM 54N in metres *)
Unit(wkid) == IF wkid = WGS84 THEN "degree" ELSE "meter"

(* geometry.buffer(distance): the distance is taken in the units of the    *)
(* geometry's own spatial reference; no unit check is made                 *)
Buffer(g, distance) == Geom(g.lo - distance, g.hi + distance, g.wkid)

DisjointTouching(g, second) == g.hi <= second.lo \/ second.hi <= g.lo

Disjoint(g, second) == g.hi < second.lo \/ second.hi < g.lo

(* ---------------------------------------------------------------------- *)
(* pandas objects                                                          *)
(* ---------------------------------------------------------------------- *)
None == [kind |-> "None"]

DataFrame(columns, index, rows) ==
    [kind |-> "DataFrame", columns |-> columns, index |-> index, rows |-> rows]

Series(name, rows) == [kind |-> "Series", name |-> name, rows |-> rows]

Labels(obj) == {obj.rows[i].label : i \in 1..Len(obj.rows)}

(* df[col]: the column as a Series over the frame's labels *)
Column(df, col) ==
    Series(col, [i \in 1..Len(df.rows) |->
                    [label |-> df.rows[i].label, v |-> df.rows[i].val[col]]])

(* series[label] *)
HasLabel(s, label) == \E i \in 1..Len(s.rows) : s.rows[i].label = label

At(s, label) == s.rows[CHOOSE i \in 1..Len(s.rows) : s.rows[i].label = label].v

(* df[mask]: rows whose mask entry (aligned on the label) is True, kept in *)
(* the frame's order; the rows are taken half by half to keep the          *)
(* evaluation shallow on long tables                                       *)
RECURSIVE SelectRowsReversed(_, _)
SelectRowsReversed(rows, mask) ==
    IF rows = <<>> THEN <<>>
    ELSE IF Len(rows) = 1
         THEN (IF At(mask, rows[1].label) = TRUE THEN rows ELSE <<>>)
    ELSE LET half == Len(rows) \div 2
         IN SelectRowsReversed(SubSeq(rows, half + 1, Len(rows)), mask)
                \o SelectRowsReversed(SubSeq(rows, 1, half), mask)

RECURSIVE SelectRows(_, _)
SelectRows(rows, mask) ==
    IF rows = <<>> THEN <<>>
    ELSE IF Len(rows) = 1
         THEN (IF At(mask, rows[1].label) = TRUE THEN rows ELSE <<>>)
    ELSE LET half == Len(rows) \div 2
         IN SelectRows(SubSeq(rows, 1, half), mask)
                \o SelectRows(SubSeq(rows, half + 1, Len(rows)), mask)

BoolIndexReset(df, mask) ==
    DataFrame(df.columns, df.index,
              [i \in 1..Len(SelectRows(df.rows, mask)) |->
                  [label |-> i - 1, val |-> SelectRows(df.rows, mask)[i].val]])

BoolIndex(df, mask) == DataFrame(df.columns, df.index, SelectRows(df.rows, mask))

(* df.set_index(["FID"]): the column becomes the row labels and leaves the *)
(* columns                                                                 *)
SetIndex(df, col) ==
    DataFrame(df.columns \ {col}, col,
              [i \in 1..Len(df.rows) |->
                  [label |-> df.rows[i].val[col],
                   val |-> [c \in df.columns \ {col} |-> df.rows[i].val[c]]]])

DropAlsoShape(df, columns) ==
    DataFrame(df.columns \ (columns \cup {"SHAPE"}), df.index,
              [i \in 1..Len(df.rows) |->
                  [label |-> df.rows[i].label,
                   val |-> [c \in df.columns \ (columns \cup {"SHAPE"}) |->
                               df.rows[i].val[c]]]])

(* df.drop(columns=...): the named columns leave every row *)
Drop(df, columns) ==
    DataFrame(df.columns \ columns, df.index,
              [i \in 1..Len(df.rows) |->
                  [label |-> df.rows[i].label,
                   val |-> [c \in df.columns \ columns |-> df.rows[i].val[c]]]])

(* df[col] = series: the column's values are replaced label by label *)
SetColumn(df, col, s) ==
    DataFrame(df.columns \cup {col}, df.index,
              [i \in 1..Len(df.rows) |->
                  [label |-> df.rows[i].label,
                   val |-> [c \in df.columns \cup {col} |->
                               IF c = col THEN At(s, df.rows[i].label)
                               ELSE df.rows[i].val[c]]]])

(* ---------------------------------------------------------------------- *)
(* Files                                                                   *)
(* ---------------------------------------------------------------------- *)
NoFile == [kind |-> "NoFile"]

File(columns, rows) == [kind |-> "File", columns |-> columns, rows |-> rows]

(* pd.DataFrame.spatial.from_featureclass(path[, sr]): rows in file order, *)
(* labelled 0..n-1, with the feature id as column FID; sr = 0 keeps the    *)
(* file's own spatial reference                                            *)
FromFeatureclass(file, sr) ==
    DataFrame(file.columns \cup {"FID"}, "RangeIndex",
              [i \in 1..Len(file.rows) |->
                  [label |-> i - 1,
                   val |-> [c \in file.columns \cup {"FID"} |->
                              IF c = "FID" THEN i - 1
                              ELSE IF c = "SHAPE" /\ sr # 0
                                   THEN Project(file.rows[i][c], sr)
                              ELSE file.rows[i][c]]]])

(* to_featureclass(path): every column and row of the frame *)
ToFeatureclass(df) ==
    File(df.columns, [i \in 1..Len(df.rows) |-> df.rows[i].val])

(* ---------------------------------------------------------------------- *)
(* The files under Data/ before the notebook runs                          *)
(* ---------------------------------------------------------------------- *)
EqFileColumns == {"ID", "Date", "Type", "Magnitude", "Depth", "SHAPE"} \cup DropList

EqRecord(id, date, type, magnitude, lon) ==
    [c \in EqFileColumns |->
        CASE c = "ID" -> id
          [] c = "Date" -> Text(date)
          [] c = "Type" -> type
          [] c = "Magnitude" -> magnitude
          [] c = "SHAPE" -> Geom(lon, lon, WGS84)
          [] OTHER -> 0]

(* candidate features of earthquakes.shp: magnitude in tenths, longitude   *)
(* in whole degrees                                                        *)
EqPool ==
    { EqRecord(QuakeID, NukeDate, "Earthquake", 80, 139),
      EqRecord(<<"N","K","1">>, <<"0","1","/","1","5","/","1","9","9","0">>,
               NukeType, 50, 129),
      EqRecord(<<"N","K","2">>, <<"1","2","/","3","1","/","1","9","8","8">>,
               NukeType, 65, 244),
      EqRecord(<<"N","K","3">>, <<"0","2","/","3","0","/","1","9","9","1">>,
               NukeType, 50, 148),
      EqRecord(<<"U","W","2">>, <<"1","/","5","/","1","9","9","0">>,
               "Earthquake", 65, 147) }

RECURSIVE SeqsOf(_, _)
SeqsOf(S, n) ==
    IF n = 0 THEN {<<>>}
    ELSE LET shorter == SeqsOf(S, n - 1)
         IN shorter \cup {Append(q, x) : q \in {r \in shorter : Len(r) = n - 1}, x \in S}

EqFiles == {File(EqFileColumns, rows) : rows \in SeqsOf(EqPool, MaxRows) \ {<<>>}}

CountryFileColumns == {"COUNTRY", "SHAPE"}

JapanShapes == {Geom(130, 146, WGS84), Geom(131, 145, WGS84)}

(* World_Countries_Generalized.shp: Japan is the feature with id 113 *)
NumCountries == 115

CountryFile(japanShape) ==
    File(CountryFileColumns,
         [i \in 1..NumCountries |->
             IF i = JapanLabel + 1
             THEN [COUNTRY |-> "Japan", SHAPE |-> japanShape]
             ELSE [COUNTRY |-> "Other", SHAPE |-> Geom(i - 180, i - 180, WGS84)]])

(* what a previous run of the notebook may have left at the output path *)
OldOutputs == {NoFile, File({"FID", "SHAPE"}, <<[FID |-> 0, SHAPE |-> Geom(0, 0, UTM54N)]>>)}

Names == {"sedf", "nukes", "countries", "countries_proj", "japan",
          "sedf_proj", "japan_query", "japan_quakes"}

Init ==
    /\ pc = "load_sedf"
    /\ env = [n \in Names |-> 0]
    /\ heap = <<>>
    /\ \E eq \in EqFiles, js \in JapanShapes, old \in OldOutputs :
           fs = [p \in {eqpath, country_path, outfile} |->
                    IF p = eqpath THEN eq
                    ELSE IF p = country_path THEN CountryFile(js)
                    ELSE old]
    /\ err = "none"
    /\ out = None

(* ---------------------------------------------------------------------- *)
(* The code cells                                                          *)
(* ---------------------------------------------------------------------- *)
Ref(name) == heap[env[name]]

(* a new object on the heap, bound to name *)
BindNew(name, obj) ==
    /\ heap' = Append(heap, obj)
    /\ env' = [env EXCEPT ![name] = Len(heap) + 1]

MutateAsNew(name, obj) ==
    /\ heap' = Append(heap, obj)
    /\ env' = [env EXCEPT ![name] = Len(heap) + 1]

(* inplace=True / df[col] = ...: the object bound to name changes in place *)
Mutate(name, obj) ==
    /\ heap' = [heap EXCEPT ![env[name]] = obj]
    /\ UNCHANGED env

(* sedf = pd.DataFrame.spatial.from_featureclass(eqpath) *)
LoadSedf ==
    /\ pc = "load_sedf"
    /\ BindNew("sedf", FromFeatureclass(fs[eqpath], 0))
    /\ pc' = "set_index"
    /\ err' = "none"
    /\ out' = None
    /\ UNCHANGED fs

(* sedf.set_index(["FID"], inplace=True) *)
SetIndexCell ==
    /\ pc = "set_index"
    /\ Mutate("sedf", SetIndex(Ref("sedf"), "FID"))
    /\ pc' = "drop"
    /\ err' = "none"
    /\ out' = None
    /\ UNCHANGED fs

(* sedf.drop(columns=[...], inplace=True) *)
DropCell ==
    /\ pc = "drop"
    /\ IF DropList \subseteq Ref("sedf").columns
       THEN /\ Mutate("sedf", Drop(Ref("sedf"), DropList))
            /\ err' = "none"
       ELSE /\ UNCHANGED <<heap, env>>
            /\ err' = "KeyError"
    /\ pc' = "filter_id"
    /\ out' = None
    /\ UNCHANGED fs

(* sedf["ID"] == "UW10530748" *)
IdMask(df) ==
    Series("ID", [i \in 1..Len(df.rows) |->
                     [label |-> df.rows[i].label,
                      v |-> (df.rows[i].val["ID"] = QuakeID)]])

(* sedf[sedf["ID"]=="UW10530748"] *)
FilterIdCell ==
    /\ pc = "filter_id"
    /\ out' = BoolIndex(Ref("sedf"), IdMask(Ref("sedf")))
    /\ pc' = "filter_mag"
    /\ err' = "none"
    /\ UNCHANGED <<heap, env, fs>>

(* sedf["Magnitude"] >= 8 *)
MagnitudeMask(df) ==
    Series("Magnitude", [i \in 1..Len(df.rows) |->
                            [label |-> df.rows[i].label,
                             v |-> (df.rows[i].val["Magnitude"] >= MagnitudeMin * 10)]])

(* sedf[sedf["Magnitude"]>=8] *)
FilterMagCell ==
    /\ pc = "filter_mag"
    /\ out' = BoolIndex(Ref("sedf"), MagnitudeMask(Ref("sedf")))
    /\ pc' = "nukes_filter"
    /\ err' = "none"
    /\ UNCHANGED <<heap, env, fs>>

(* (sedf["Type"]=="Nuclear Explosion") & (sedf["Date"]>='11/09/1989') *)
NukesMask(df) ==
    Series("", [i \in 1..Len(df.rows) |->
                   [label |-> df.rows[i].label,
                    v |-> (/\ df.rows[i].val["Type"] = NukeType
                           /\ DateGE(df.rows[i].val["Date"], NukeDate))]])

(* nukes = sedf[...] *)
NukesFilterCell ==
    /\ pc = "nukes_filter"
    /\ BindNew("nukes", BoolIndex(Ref("sedf"), NukesMask(Ref("sedf"))))
    /\ pc' = "nukes_fallback"
    /\ err' = "none"
    /\ out' = None
    /\ UNCHANGED fs

(* pd.to_datetime(sedf["Date"], format="%m/%d/%Y", errors="coerce") *)
ToDatetime(s) ==
    Series(s.name, [i \in 1..Len(s.rows) |->
                       [label |-> s.rows[i].label,
                        v |-> ToDatetimeCoerce(s.rows[i].v)]])

(* nukes = sedf["Date"] = pd.to_datetime(...): the new Series is bound to  *)
(* nukes, then stored as sedf's Date column                                *)
NukesFallbackCell ==
    /\ pc = "nukes_fallback"
    /\ LET parsed == ToDatetime(Column(Ref("sedf"), "Date"))
       IN /\ heap' = Append([heap EXCEPT ![env["sedf"]] =
                                SetColumn(Ref("sedf"), "Date", parsed)], parsed)
          /\ env' = [env EXCEPT !["nukes"] = Len(heap) + 1]
    /\ pc' = "nukes_plot"
    /\ err' = "none"
    /\ out' = None
    /\ UNCHANGED fs

(* "We may need to run the code below if the code above doesn't work":     *)
(* the fallback cell is not run                                            *)
SkipFallbackCell ==
    /\ pc = "nukes_fallback"
    /\ pc' = "nukes_plot"
    /\ UNCHANGED <<heap, env, fs, err, out>>

(* nukes.spatial.plot(map_widget=nukemap, ...): the spatial accessor       *)
(* exists on a DataFrame only                                              *)
NukesPlotCell ==
    /\ pc = "nukes_plot"
    /\ err' = IF Ref("nukes").kind = "DataFrame" THEN "none" ELSE "AttributeError"
    /\ pc' = "load_countries"
    /\ out' = None
    /\ UNCHANGED <<heap, env, fs>>

(* countries = pd.DataFrame.spatial.from_featureclass(country_path) *)
LoadCountries ==
    /\ pc = "load_countries"
    /\ BindNew("countries", FromFeatureclass(fs[country_path], 0))
    /\ pc' = "filter_japan"
    /\ err' = "none"
    /\ out' = None
    /\ UNCHANGED fs

(* df["COUNTRY"] == "Japan" *)
JapanMask(df) ==
    Series("COUNTRY", [i \in 1..Len(df.rows) |->
                          [label |-> df.rows[i].label,
                           v |-> (df.rows[i].val["COUNTRY"] = "Japan")]])

(* countries[countries["COUNTRY"]=="Japan"] *)
FilterJapanCell ==
    /\ pc = "filter_japan"
    /\ out' = BoolIndex(Ref("countries"), JapanMask(Ref("countries")))
    /\ pc' = "trial_buffer"
    /\ err' = "none"
    /\ UNCHANGED <<heap, env, fs>>

(* countries.SHAPE[113].buffer(distance=100) *)
TrialBufferCell ==
    /\ pc = "trial_buffer"
    /\ LET shape == Column(Ref("countries"), "SHAPE")
       IN IF HasLabel(shape, JapanLabel)
          THEN /\ out' = Buffer(At(shape, JapanLabel), TrialDistance)
               /\ err' = "none"
          ELSE /\ out' = None
               /\ err' = "KeyError"
    /\ pc' = "load_countries_proj"
    /\ UNCHANGED <<heap, env, fs>>

(* countries_proj = from_featureclass(country_path,                        *)
(*                                    sr=SpatialReference(32654).as_arcpy) *)
LoadCountriesProj ==
    /\ pc = "load_countries_proj"
    /\ BindNew("countries_proj", FromFeatureclass(fs[country_path], UTM54N))
    /\ pc' = "buffer_proj"
    /\ err' = "none"
    /\ out' = None
    /\ UNCHANGED fs

(* countries_proj.SHAPE[113].buffer(distance=160934) *)
BufferProjCell ==
    /\ pc = "buffer_proj"
    /\ LET shape == Column(Ref("countries_proj"), "SHAPE")
       IN IF HasLabel(shape, JapanLabel)
          THEN /\ out' = Buffer(At(shape, JapanLabel), BufferDistance)
               /\ err' = "none"
          ELSE /\ out' = None
               /\ err' = "KeyError"
    /\ pc' = "japan_copy"
    /\ UNCHANGED <<heap, env, fs>>

JapanCopyAlias ==
    /\ pc = "japan_copy"
    /\ env' = [env EXCEPT !["japan"] = env["countries_proj"]]
    /\ heap' = heap
    /\ pc' = "japan_buffer"
    /\ err' = "none"
    /\ out' = None
    /\ UNCHANGED fs

(* japan = countries_proj[countries_proj["COUNTRY"]=="Japan"].copy() *)
JapanCopyCell ==
    /\ pc = "japan_copy"
    /\ BindNew("japan", BoolIndex(Ref("countries_proj"), JapanMask(Ref("countries_proj"))))
    /\ pc' = "japan_buffer"
    /\ err' = "none"
    /\ out' = None
    /\ UNCHANGED fs

(* series.geom.buffer(distance=...): every geometry of the Series *)
BufferSeries(s, distance) ==
    Series(s.name, [i \in 1..Len(s.rows) |->
                       [label |-> s.rows[i].label,
                        v |-> Buffer(s.rows[i].v, distance)]])

(* japan["SHAPE"] = japan.SHAPE.geom.buffer(distance=160934) *)
JapanBufferCell ==
    /\ pc = "japan_buffer"
    /\ Mutate("japan", SetColumn(Ref("japan"), "SHAPE",
                                 BufferSeries(Column(Ref("japan"), "SHAPE"), BufferDistance)))
    /\ pc' = "japan_shape"
    /\ err' = "none"
    /\ out' = None
    /\ UNCHANGED fs

(* japan.SHAPE[113] *)
JapanShapeCell ==
    /\ pc = "japan_shape"
    /\ LET shape == Column(Ref("japan"), "SHAPE")
       IN IF HasLabel(shape, JapanLabel)
          THEN /\ out' = At(shape, JapanLabel)
               /\ err' = "none"
          ELSE /\ out' = None
               /\ err' = "KeyError"
    /\ pc' = "load_sedf_proj"
    /\ UNCHANGED <<heap, env, fs>>

(* sedf_proj = from_featureclass(eqpath, sr=SpatialReference(32654).as_arcpy) *)
LoadSedfProj ==
    /\ pc = "load_sedf_proj"
    /\ BindNew("sedf_proj", FromFeatureclass(fs[eqpath], UTM54N))
    /\ pc' = "japan_query"
    /\ err' = "none"
    /\ out' = None
    /\ UNCHANGED fs

(* series.geom.disjoint(second) == False *)
NotDisjointMask(s, second) ==
    Series(s.name, [i \in 1..Len(s.rows) |->
                       [label |-> s.rows[i].label,
                        v |-> (Disjoint(s.rows[i].v, second) = FALSE)]])

(* japan_query = sedf_proj.SHAPE.geom.disjoint(japan.SHAPE[113]) == False *)
(* japan_quakes = sedf_proj[japan_query]                                   *)
JapanQueryCell ==
    /\ pc = "japan_query"
    /\ LET shape == Column(Ref("japan"), "SHAPE")
       IN IF HasLabel(shape, JapanLabel)
          THEN LET query == NotDisjointMask(Column(Ref("sedf_proj"), "SHAPE"),
                                            At(shape, JapanLabel))
               IN /\ heap' = heap \o <<query, BoolIndex(Ref("sedf_proj"), query)>>
                  /\ env' = [env EXCEPT !["japan_query"] = Len(heap) + 1,
                                        !["japan_quakes"] = Len(heap) + 2]
                  /\ err' = "none"
          ELSE /\ UNCHANGED <<heap, env>>
               /\ err' = "KeyError"
    /\ pc' = "store"
    /\ out' = None
    /\ UNCHANGED fs

(* the rows an interrupted write may have put at the destination *)
Prefixes(file) == {File(file.columns, SubSeq(file.rows, 1, n)) : n \in 0..Len(file.rows)}

(* japan_quakes.spatial.to_featureclass(outfile): the frame is written to  *)
(* the path it is given; the write completes, or fails with the library's  *)
(* exception before or after it has touched the destination                *)
StoreCell ==
    /\ pc = "store"
    /\ IF env["japan_quakes"] = 0
       THEN /\ err' = "NameError"
            /\ UNCHANGED fs
       ELSE \/ /\ fs' = [fs EXCEPT ![outfile] = ToFeatureclass(Ref("japan_quakes"))]
               /\ err' = "none"
            \/ /\ \E left \in {fs[outfile]} \cup Prefixes(ToFeatureclass(Ref("japan_quakes"))) :
                      fs' = [fs EXCEPT ![outfile] = left]
               /\ err' = "Exception"
    /\ pc' = "done"
    /\ out' = None
    /\ UNCHANGED <<heap, env>>

Next ==
    \/ LoadSedf
    \/ SetIndexCell
    \/ DropCell
    \/ FilterIdCell
    \/ FilterMagCell
    \/ NukesFilterCell
    \/ NukesFallbackCell
    \/ SkipFallbackCell
    \/ NukesPlotCell
    \/ LoadCountries
    \/ FilterJapanCell
    \/ TrialBufferCell
    \/ LoadCountriesProj
    \/ BufferProjCell
    \/ JapanCopyCell
    \/ JapanBufferCell
    \/ JapanShapeCell
    \/ LoadSedfProj
    \/ JapanQueryCell
    \/ StoreCell

Spec == Init /\ [][Next]_vars

(* ---------------------------------------------------------------------- *)
(* Properties                                                              *)
(* ---------------------------------------------------------------------- *)
Frames == {k \in 1..Len(heap) : heap[k].kind = "DataFrame" /\ "SHAPE" \in heap[k].columns}

(* the reference geometries tried against every table: the geometries of   *)
(* japan and of the queried features, and a displayed geometry             *)
References ==
    (IF env["japan"] = 0 THEN {}
     ELSE {Ref("japan").rows[i].val["SHAPE"] : i \in 1..Len(Ref("japan").rows)})
    \cup (IF env["sedf_proj"] = 0 THEN {}
          ELSE {Ref("sedf_proj").rows[i].val["SHAPE"] : i \in 1..Len(Ref("sedf_proj").rows)})
    \cup (IF out.kind = "Geometry" THEN {out} ELSE {})

(* two geometries intersect when some point lies in both *)
Intersects(g, second) == \E lo \in {g.lo, second.lo} :
                             /\ g.lo <= lo /\ lo <= g.hi
                             /\ second.lo <= lo /\ lo <= second.hi

PredicateMask(df, second, kind) ==
    Series("SHAPE", [i \in 1..Len(df.rows) |->
                        [label |-> df.rows[i].label,
                         v |-> IF kind = "disjoint"
                               THEN Disjoint(df.rows[i].val["SHAPE"], second)
                               ELSE Intersects(df.rows[i].val["SHAPE"], second)]])

PredicateFilter(df, second, kind) == BoolIndex(df, PredicateMask(df, second, kind))

C2_DropLeavesInputUnmodified ==
    [][pc = "drop" => heap'[env["sedf"]].columns = heap[env["sedf"]].columns]_vars

(* C2 amended: the drop-columns step changes the table bound to sedf in    *)
(* place: no object is created, sedf names the same object, that object    *)
(* loses exactly the dropped columns, and no other object changes.         *)
C2_DropMutatesInPlace ==
    [][(pc = "drop" /\ err' = "none") =>
          /\ env' = env
          /\ Len(heap') = Len(heap)
          /\ heap'[env["sedf"]].columns = heap[env["sedf"]].columns \ DropList
          /\ heap'[env["sedf"]].columns # heap[env["sedf"]].columns
          /\ \A k \in 1..Len(heap) : k # env["sedf"] => heap'[k] = heap[k]]_vars

C2_Witness ==
    /\ pc = "filter_id"
    /\ err = "none"
    /\ Ref("sedf").columns \cap DropList = {}
    /\ Len(heap) = 1

(* C3: no buffer runs to completion and returns a geometry while the       *)
(* coordinate system of its table is in degrees; the trial buffer on       *)
(* countries ends in an error instead.                                     *)
C3_NoBufferInDegrees ==
    ~(/\ pc = "load_countries_proj"
      /\ err = "none"
      /\ out.kind = "Geometry"
      /\ Unit(out.wkid) = "degree")

(* C4: the table handed to the Writer has none of the columns dropped in   *)
(* the Clean stage and carries the index set in the Clean stage.           *)
C4_WrittenTableIsCleaned ==
    (pc = "store" /\ env["japan_quakes"] # 0) =>
        /\ Ref("japan_quakes").columns \cap DropList = {}
        /\ Ref("japan_quakes").index = "FID"

(* the predicates of the row-filter cells, on one row *)
IdIs(r) == r.val["ID"] = QuakeID

MagnitudeAtLeast(r) == r.val["Magnitude"] >= MagnitudeMin * 10

NukeSince(r) == r.val["Type"] = NukeType /\ DateGE(r.val["Date"], NukeDate)

IsJapan(r) == r.val["COUNTRY"] = "Japan"

Selected(df, P(_)) == {i \in 1..Len(df.rows) : P(df.rows[i])}

(* res is df cut down to the rows satisfying P: same columns and index,    *)
(* the k-th row of res is the k-th satisfying row of df                    *)
ExactFilter(df, res, P(_)) ==
    LET sel == Selected(df, P)
    IN /\ res.kind = "DataFrame"
       /\ res.columns = df.columns
       /\ res.index = df.index
       /\ Len(res.rows) = Cardinality(sel)
       /\ \A k \in 1..Len(res.rows) :
             \E i \in sel : /\ Cardinality({j \in sel : j < i}) = k - 1
                            /\ res.rows[k] = df.rows[i]

(* C5: every row-filter cell returns exactly the rows of its input that    *)
(* satisfy the predicate, each once, in their original order, and leaves   *)
(* the input table (and every other object) as it was.                     *)
C5_RowFilterExact ==
    [][/\ pc = "filter_id" =>
             ExactFilter(Ref("sedf"), out', IdIs) /\ heap' = heap
       /\ pc = "filter_mag" =>
             ExactFilter(Ref("sedf"), out', MagnitudeAtLeast) /\ heap' = heap
       /\ pc = "nukes_filter" =>
             /\ ExactFilter(Ref("sedf"), heap'[env'["nukes"]], NukeSince)
             /\ \A k \in 1..Len(heap) : heap'[k] = heap[k]
       /\ pc = "filter_japan" =>
             ExactFilter(Ref("countries"), out', IsJapan) /\ heap' = heap]_vars

C5_Witness ==
    /\ pc = "nukes_fallback"
    /\ Len(Ref("sedf").rows) = 2
    /\ Len(Ref("nukes").rows) = 1
    /\ Ref("nukes").rows[1] = Ref("sedf").rows[2]

(* column sets tried on every table: those of the probe names the table has *)
DropSets(df) == {D \in SUBSET {"SHAPE", "ID", "Depth_Erro", "COUNTRY"} : D \subseteq df.columns}

(* res is df without the columns D: exactly the other columns, SHAPE kept   *)
(* unless dropped, the same rows with their labels and remaining values     *)
ExactDrop(df, res, D) ==
    /\ res.columns = df.columns \ D
    /\ (("SHAPE" \in df.columns /\ "SHAPE" \notin D) => "SHAPE" \in res.columns)
    /\ Len(res.rows) = Len(df.rows)
    /\ \A i \in 1..Len(res.rows) :
          /\ DOMAIN res.rows[i].val = res.columns
          /\ res.rows[i].label = df.rows[i].label
          /\ \A c \in res.columns : res.rows[i].val[c] = df.rows[i].val[c]

(* C6: dropping a set D of columns from a table with columns C yields a    *)
(* table whose columns are exactly C minus D, SHAPE among them unless it   *)
(* is in D, with the same number of rows: for the drop-columns step of the *)
(* notebook, and for the drop applied to any table of the run.             *)
C6_DropColumnsExact ==
    [][/\ (pc = "drop" /\ err' = "none") =>
             ExactDrop(heap[env["sedf"]], heap'[env'["sedf"]], DropList)
       /\ \A k \in 1..Len(heap) : heap[k].kind = "DataFrame" =>
             \A D \in DropSets(heap[k]) : ExactDrop(heap[k], Drop(heap[k], D), D)]_vars

C6_Witness ==
    /\ pc = "filter_id"
    /\ err = "none"
    /\ Ref("sedf").columns = {"ID", "Date", "Type", "Magnitude", "Depth", "SHAPE"}
    /\ Len(Ref("sedf").rows) = MaxRows

(* C7: when the write to the destination path fails, the destination file  *)
(* is left exactly as it was before the write began.                       *)
C7_FailedWriteKeepsDestination ==
    [][(pc = "store" /\ err' = "Exception") => fs'[outfile] = fs[outfile]]_vars

(* C8: no operation replaces a value it could not process by a placeholder *)
(* and continues: no table ever holds the not-a-time placeholder in its    *)
(* Date column.                                                            *)
C8_NoPlaceholderDates ==
    \A k \in 1..Len(heap) :
        (heap[k].kind = "DataFrame" /\ "Date" \in heap[k].columns) =>
            \A i \in 1..Len(heap[k].rows) : heap[k].rows[i].val["Date"] # NaT

(* C10: when nukes is plotted it is bound to the sub-table of sedf rows    *)
(* with Type == "Nuclear Explosion" and Date >= 11/09/1989, whether or not *)
(* the fallback cell was run.                                              *)
C10_NukesIsFilteredTable ==
    pc = "nukes_plot" =>
        /\ Ref("nukes").kind = "DataFrame"
        /\ Labels(Ref("nukes")) =
              {Ref("sedf").rows[i].label : i \in Selected(Ref("sedf"), NukeSince)}

(* the geometry of the feature that a row label names in a file *)
Native(path, label) == fs[path].rows[label + 1]["SHAPE"]

(* g is the file's geometry native expressed in the system wkid: tagged    *)
(* wkid, with the file's coordinates when the systems agree and with their *)
(* eastings otherwise                                                      *)
Expressed(g, native, wkid) ==
    /\ g.wkid = wkid
    /\ g.lo = (IF native.wkid = wkid THEN native.lo
               ELSE FalseEasting + (native.lo - CentralMeridian) * MetersPerDegree)
    /\ g.hi = (IF native.wkid = wkid THEN native.hi
               ELSE FalseEasting + (native.hi - CentralMeridian) * MetersPerDegree)

(* every geometry of the table bound to name is its feature of the file at *)
(* path, expressed in wkid and widened by margin                           *)
TableExpressed(name, path, wkid, margin) ==
    env[name] # 0 =>
        \A i \in 1..Len(Ref(name).rows) :
            LET g == Ref(name).rows[i].val["SHAPE"]
            IN Expressed(Geom(g.lo + margin, g.hi - margin, g.wkid),
                         Native(path, Ref(name).rows[i].label), wkid)

(* the spatial references carried by the geometries of a table *)
TableSr(df) == {df.rows[i].val["SHAPE"].wkid : i \in 1..Len(df.rows)}

(* C11: in every state each table's geometries carry one coordinate        *)
(* system and are expressed in it (the file's coordinates for a plain      *)
(* load, their projection for a load with WKID 32654, the projection       *)
(* widened by 160934 for japan after the replacement, still tagged 32654); *)
(* and once the query has run, its reference geometry and every geometry   *)
(* of sedf_proj carry the same system, 32654.                              *)
C11_GeometriesMatchTag ==
    /\ \A k \in Frames : Cardinality(TableSr(heap[k])) <= 1
    /\ TableExpressed("sedf", eqpath, WGS84, 0)
    /\ (env["nukes"] # 0 /\ Ref("nukes").kind = "DataFrame") =>
           TableExpressed("nukes", eqpath, WGS84, 0)
    /\ TableExpressed("countries", country_path, WGS84, 0)
    /\ TableExpressed("countries_proj", country_path, UTM54N, 0)
    /\ TableExpressed("japan", country_path, UTM54N,
                      IF pc = "japan_buffer" THEN 0 ELSE BufferDistance)
    /\ TableExpressed("sedf_proj", eqpath, UTM54N, 0)
    /\ TableExpressed("japan_quakes", eqpath, UTM54N, 0)
    /\ env["japan_quakes"] # 0 =>
           LET g == At(Column(Ref("japan"), "SHAPE"), JapanLabel)
           IN /\ g.wkid = UTM54N
              /\ Unit(g.wkid) = "meter"
              /\ TableSr(Ref("sedf_proj")) = {g.wkid}
              /\ TableSr(Ref("japan")) = {g.wkid}

C11_Witness ==
    /\ env["japan_quakes"] # 0
    /\ Len(Ref("japan_quakes").rows) >= 1
    /\ TableSr(Ref("sedf_proj")) = {UTM54N}
    /\ At(Column(Ref("japan"), "SHAPE"), JapanLabel).wkid = UTM54N
    /\ At(Column(Ref("japan"), "SHAPE"), JapanLabel).hi
           = At(Column(Ref("countries_proj"), "SHAPE"), JapanLabel).hi + BufferDistance

(* C12: the replacement of japan's SHAPE column by the buffered geometry   *)
(* changes only japan: japan is an object of its own, countries_proj and   *)
(* countries (and every other object, binding and file) stay as they were, *)
(* and japan keeps its columns, index, rows, labels and every value        *)
(* outside SHAPE.                                                          *)
C12_BufferChangesOnlyJapan ==
    [][pc = "japan_buffer" =>
          /\ env["japan"] \notin {env["countries"], env["countries_proj"]}
          /\ env' = env
          /\ fs' = fs
          /\ Len(heap') = Len(heap)
          /\ heap'[env["countries_proj"]] = heap[env["countries_proj"]]
          /\ heap'[env["countries"]] = heap[env["countries"]]
          /\ \A k \in 1..Len(heap) : k # env["japan"] => heap'[k] = heap[k]
          /\ LET before == heap[env["japan"]]
                 after == heap'[env["japan"]]
             IN /\ after.kind = "DataFrame"
                /\ after.columns = before.columns
                /\ after.index = before.index
                /\ Len(after.rows) = Len(before.rows)
                /\ \A i \in 1..Len(after.rows) :
                      /\ after.rows[i].label = before.rows[i].label
                      /\ \A c \in before.columns \ {"SHAPE"} :
                            after.rows[i].val[c] = before.rows[i].val[c]]_vars

C12_Witness ==
    /\ pc = "japan_shape"
    /\ Len(Ref("japan").rows) = 1
    /\ Ref("japan").rows[1].val["COUNTRY"] = "Japan"
    /\ Ref("japan").rows[1].val["SHAPE"]
           = Buffer(At(Column(Ref("countries_proj"), "SHAPE"), JapanLabel), BufferDistance)
    /\ Ref("japan").rows[1].val["SHAPE"]
           # At(Column(Ref("countries_proj"), "SHAPE"), JapanLabel)
    /\ Len(Ref("countries_proj").rows) = NumCountries

(* the rows of a table that a label names *)
RowsAt(df, label) == {i \in 1..Len(df.rows) : df.rows[i].label = label}

(* the label 113 names exactly one row of the table bound to name, the one *)
(* with COUNTRY == "Japan"                                                 *)
AddressesJapan(name) ==
    /\ Cardinality(RowsAt(Ref(name), JapanLabel)) = 1
    /\ \A i \in RowsAt(Ref(name), JapanLabel) : Ref(name).rows[i].val["COUNTRY"] = "Japan"
    /\ \A i \in 1..Len(Ref(name).rows) :
          Ref(name).rows[i].val["COUNTRY"] = "Japan" => Ref(name).rows[i].label = JapanLabel

(* the geometry of the Japan feature as the countries file holds it *)
JapanNative ==
    fs[country_path].rows[CHOOSE i \in 1..Len(fs[country_path].rows) :
                              fs[country_path].rows[i]["COUNTRY"] = "Japan"]["SHAPE"]

JapanProjected ==
    Geom(FalseEasting + (JapanNative.lo - CentralMeridian) * MetersPerDegree,
         FalseEasting + (JapanNative.hi - CentralMeridian) * MetersPerDegree, UTM54N)

(* C13: the label 113 names the Japan record in countries, countries_proj  *)
(* and japan; the two loads of the countries file give the same rows in    *)
(* the same order with the same labels and attribute values; the filter    *)
(* and copy keep the label; so every SHAPE[113] of the notebook finds the  *)
(* Japan geometry (no KeyError) and the query is made against the buffered *)
(* Japan geometry.                                                         *)
C13_Label113IsJapan ==
    /\ env["countries"] # 0 => AddressesJapan("countries")
    /\ env["countries_proj"] # 0 =>
          /\ AddressesJapan("countries_proj")
          /\ Len(Ref("countries_proj").rows) = Len(Ref("countries").rows)
          /\ \A i \in 1..Len(Ref("countries").rows) :
                /\ Ref("countries_proj").rows[i].label = Ref("countries").rows[i].label
                /\ \A c \in Ref("countries").columns \ {"SHAPE"} :
                      Ref("countries_proj").rows[i].val[c] = Ref("countries").rows[i].val[c]
    /\ env["japan"] # 0 =>
          /\ AddressesJapan("japan")
          /\ Labels(Ref("japan")) = {JapanLabel}
    /\ pc = "load_countries_proj" =>
          err = "none" /\ out = Buffer(JapanNative, TrialDistance)
    /\ pc = "japan_copy" =>
          err = "none" /\ out = Buffer(JapanProjected, BufferDistance)
    /\ pc = "load_sedf_proj" =>
          err = "none" /\ out = Buffer(JapanProjected, BufferDistance)
    /\ pc \in {"store", "done"} =>
          /\ env["japan_quakes"] # 0
          /\ \A i \in 1..Len(Ref("sedf_proj").rows) :
                Ref("japan_query").rows[i].v
                    = ~Disjoint(Ref("sedf_proj").rows[i].val["SHAPE"],
                                Buffer(JapanProjected, BufferDistance))

C13_Witness ==
    /\ pc = "store"
    /\ env["japan_quakes"] # 0
    /\ Labels(Ref("japan")) = {JapanLabel}
    /\ RowsAt(Ref("countries"), JapanLabel) = {JapanLabel + 1}
    /\ RowsAt(Ref("countries_proj"), JapanLabel) = {JapanLabel + 1}
    /\ Ref("japan").rows[1].val["COUNTRY"] = "Japan"

====
